---- MODULE Spec2Model ----
(***************************************************************************)
(* Client-side real-time synchronisation layer of the URL shortener:       *)
(*   - the useUrls hook (local collection of ShortUrl records, HTTP        *)
(*     mutations, pushed socket events),                                   *)
(*   - the SocketManager singleton (transport, reconnect timers,           *)
(*     listener registry),                                                 *)
(*   - the AuthManager singleton (session, durable storage, expiry),       *)
(*   - the ApiClient (request gateway).                                    *)
(* The backend and the socket.io transport are the environment.            *)
(***************************************************************************)
EXTENDS Integers, Sequences, FiniteSets, TLC

\* ---------------------------------------------------------------- bounds
MaxId == 2          \* ids the backend hands out: 1..MaxId
MaxClicks == 2      \* click counts carried by records and events: 0..MaxClicks
MaxLen == 2         \* length of a collection installed by a load
MaxSockets == 3     \* transports held at once (closed ones are forgotten)
MaxTimers == 2      \* reconnect timers pending at once
MaxEmits == 2       \* emits of the terminal event counted
MaxFetch == 2       \* fetchUrls() calls in flight at once
MaxChan == 1        \* pushed events on their way at once
MaxChecks == 2      \* onCheckCustomCode() calls in flight at once
MaxDate == 3        \* expiration dates and rendering times: 1..MaxDate

VARIABLES
    \* ---- useUrls
    urls,           \* useState<ShortUrl[]>: sequence of [id, clicksTotal]
    createReq,      \* the createUrl() call: [st, rec]
    deleteReq,      \* the deleteUrl(id) call: [st, id]
    \* ---- backend (environment)
    srvLive,        \* ids of the records the backend holds
    nextId,         \* next id the backend assigns
    \* ---- history of the socket handlers of useUrls
    last,           \* event handled by the last step, NoEvent otherwise
    rel,            \* how `last` relates to the event handled just before it
    \* ---- fetchUrls
    fetchReqs,      \* the fetchUrls() calls in flight, in the order of issue
    chan,           \* pushed events on their way to this client, in order
    lastResp,       \* history of fetchUrls(): the response handled last
    \* ---- SocketManager
    sockets,        \* the transports io() created: status per slot
    socket,         \* this.socket: index into sockets, 0 for null
    isConnected,    \* this.isConnected
    reconnectAttempts,  \* this.reconnectAttempts
    timers,         \* setTimeout callbacks of handleReconnect not yet run
    listeners,      \* this.listeners: set of <<event, callback>>
    handshake,      \* auth.token each transport was created with
    joinSent,       \* rooms of the joinRoom messages sent over each transport
    \* ---- history of the SocketManager
    maxReachedEmits,    \* emit('maxReconnectAttemptsReached') calls since the
                        \* last connect() call or 'connect' event
    lastDelay,      \* delay of the timer handleReconnect() started last, 0 if
                    \* none since the last 'connect' event
    localDisc,      \* disconnect() was called and connect() not since
    \* ---- AuthManager
    token,          \* authState.token ("null" for null)
    user,           \* authState.user: the user's id, 0 for null
    isAuthenticated,    \* authState.isAuthenticated
    isLoading,      \* authState.isLoading
    storage,        \* localStorage: [auth_token, auth_user], "null" / 0 if absent
    now,            \* Date.now()
    loginReq,       \* the login() / register() call: [st, jwt]
    refreshReq,     \* the refreshUser() call: [st]
    \* ---- history of the AuthManager
    seen,           \* the state notifyListeners() passed to the listeners last
    authChecked,    \* what the last step's isAuthenticated() call returned
    \* ---- ApiClient
    gw,             \* the last gateway call: [op, outcome, result]
    \* ---- history of SocketManager.emit
    dispatched,     \* the last two emit() calls: the event and the callbacks
                    \* invoked, of the last call and of the one before it
    \* ---- UrlShorteningForm
    useCustomCode,  \* useState(false)
    customCode,     \* watch('customCode'): the value of the input
    customCodeStatus,   \* useState: [checking, available], available being
                        \* "null", "true" or "false"
    timeoutId,      \* the value the pending setTimeout(checkCode, 500) was
                    \* started for, NoTimeout when none is pending
    checks,         \* the onCheckCustomCode() calls in flight, in the order of
                    \* issue: [code, st, available]
    \* ---- history of UrlShorteningForm
    lastCheck,      \* the availability check completed last: [code, available]
    applied,        \* the result the last step wrote to customCodeStatus:
                    \* [code, current], NoApplied otherwise
    submitted,      \* the last onSubmit() call: its custom code and the check
                    \* completed last before it
    \* ---- the dashboard list
    view            \* a rendering: the records, the time, and the partitions
                    \* of useUrls and of UrlList

urlVars == <<urls, createReq, deleteReq, srvLive, nextId, last, rel>>

loadVars == <<fetchReqs, chan, lastResp>>

sockVars == <<sockets, socket, isConnected, reconnectAttempts, lastDelay, timers,
              listeners, handshake, joinSent, maxReachedEmits, localDisc>>

authVars == <<token, user, isAuthenticated, isLoading, storage, now, loginReq,
              refreshReq, seen, authChecked>>

regVars == <<dispatched>>

formVars == <<useCustomCode, customCode, customCodeStatus, timeoutId, checks,
              lastCheck, applied, submitted>>

uiVars == <<regVars, formVars, view>>

vars == <<urlVars, loadVars, sockVars, authVars, gw, uiVars>>

\* ================================================================ useUrls

RecordIds == 1..MaxId

NoRec == [id |-> 0, clicksTotal |-> 0]

NoEvent == [name |-> "none"]

ClickUpdateEv(i, c) ==
    [name |-> "clickUpdate", data |-> [shortUrlId |-> i, newClickCount |-> c]]

UrlCreatedEv(r) == [name |-> "urlCreated", data |-> [shortUrl |-> r]]

UrlDeletedEv(i) == [name |-> "urlDeleted", data |-> [shortUrlId |-> i]]

\* JavaScript truthiness of a number
Truthy(n) == n # 0

Ids(s) == {s[k].id : k \in 1..Len(s)}

Count(s, i) == Cardinality({k \in 1..Len(s) : s[k].id = i})

RemoveId(s, i) == SelectSeq(s, LAMBDA u : u.id # i)

\* adds the pushed count to the counter
updateUrlClicksAdd(s, urlId, newClickCount) ==
    [k \in 1..Len(s) |->
        IF s[k].id = urlId
        THEN [s[k] EXCEPT !.clicksTotal = s[k].clicksTotal + newClickCount]
        ELSE s[k]]

\* inserts a record for an id the collection does not hold
updateUrlClicksUpsert(s, urlId, newClickCount) ==
    IF \E k \in 1..Len(s) : s[k].id = urlId
    THEN [k \in 1..Len(s) |->
            IF s[k].id = urlId
            THEN [s[k] EXCEPT !.clicksTotal = newClickCount]
            ELSE s[k]]
    ELSE Append(s, [id |-> urlId, clicksTotal |-> newClickCount])

\* sets the counter of every record
updateUrlClicksAll(s, urlId, newClickCount) ==
    [k \in 1..Len(s) |-> [s[k] EXCEPT !.clicksTotal = newClickCount]]

\* prev.map(url => url.id === urlId ? {...url, clicksTotal: newClickCount} : url)
updateUrlClicks(s, urlId, newClickCount) ==
    [k \in 1..Len(s) |->
        IF s[k].id = urlId
        THEN [s[k] EXCEPT !.clicksTotal = newClickCount]
        ELSE s[k]]

\* subscribeToClickUpdates handler
OnClickUpdate(s, data) ==
    IF Truthy(data.shortUrlId) /\ "newClickCount" \in DOMAIN data
    THEN updateUrlClicks(s, data.shortUrlId, data.newClickCount)
    ELSE s

\* subscribeToUrlCreated handler
OnUrlCreated(s, data) ==
    IF "shortUrl" \in DOMAIN data
    THEN IF \E k \in 1..Len(s) : s[k].id = data.shortUrl.id
         THEN s
         ELSE <<data.shortUrl>> \o s
    ELSE s

\* subscribeToUrlDeleted handler
OnUrlDeleted(s, data) ==
    IF Truthy(data.shortUrlId)
    THEN RemoveId(s, data.shortUrlId)
    ELSE s

\* the three handlers registered by the socket effect of useUrls
Reconcile(s, e) ==
    CASE e.name = "clickUpdate" -> OnClickUpdate(s, e.data)
      [] e.name = "urlCreated"  -> OnUrlCreated(s, e.data)
      [] e.name = "urlDeleted"  -> OnUrlDeleted(s, e.data)
      [] OTHER -> s

\* Lifecycle events the backend has emitted so far (emitUrlCreated,
\* emitUrlDeleted). The transport gives no ordering or delivery guarantee: an
\* emitted event may reach the handlers late, more than once, or never.
Emitted ==
    LET assigned == 1..(nextId - 1) IN
        {UrlCreatedEv([id |-> i, clicksTotal |-> 0]) : i \in assigned}
        \cup {UrlDeletedEv(i) : i \in assigned \ srvLive}

\* How the event handled now relates to the one handled by the step before:
\* the same event again, a urlDeleted that removed a record, a clickUpdate
\* for the id a urlDeleted has just removed, a clickUpdate that changed a
\* counter.
Relation(before, beforeRel, e, changed) ==
    IF before = e THEN "same"
    ELSE IF e.name = "urlDeleted" /\ changed THEN "removed"
    ELSE IF before.name = "urlDeleted" /\ beforeRel = "removed"
            /\ e.name = "clickUpdate"
            /\ before.data.shortUrlId = e.data.shortUrlId THEN "removedThenClick"
    ELSE IF e.name = "clickUpdate" /\ changed THEN "updated"
    ELSE "other"

NoHandler == last' = NoEvent /\ rel' = "other"

\* ---- createUrl
CreateUrlCall ==
    /\ createReq.st \in {"idle", "resolved", "rejected"}
    /\ createReq' = [st |-> "sent", rec |-> NoRec]
    /\ NoHandler
    /\ UNCHANGED <<urls, deleteReq, srvLive, nextId, loadVars, sockVars, authVars, gw, uiVars>>

\* backend: POST /api/short-urls succeeds, the record exists and is announced
BackendCreate ==
    /\ createReq.st = "sent"
    /\ nextId <= MaxId
    /\ LET r == [id |-> nextId, clicksTotal |-> 0] IN
        /\ createReq' = [st |-> "ok", rec |-> r]
    /\ srvLive' = srvLive \cup {nextId}
    /\ nextId' = nextId + 1
    /\ NoHandler
    /\ UNCHANGED <<urls, deleteReq, loadVars, sockVars, authVars, gw, uiVars>>

\* backend: non-2xx response, or no response at all
BackendCreateFail ==
    /\ createReq.st = "sent"
    /\ createReq' = [st |-> "fail", rec |-> NoRec]
    /\ NoHandler
    /\ UNCHANGED <<urls, deleteReq, srvLive, nextId, loadVars, sockVars, authVars, gw, uiVars>>

\* puts the new record at the end
CreateUrlAppend(s, newUrl) == Append(s, newUrl)

\* setUrls(prev => [newUrl, ...prev]); return newUrl
CreateUrlPrepend(s, newUrl) == <<newUrl>> \o s

CreateUrlResolve ==
    /\ createReq.st = "ok"
    /\ urls' = CreateUrlPrepend(urls, createReq.rec)
    /\ createReq' = [createReq EXCEPT !.st = "resolved"]
    /\ NoHandler
    /\ UNCHANGED <<deleteReq, srvLive, nextId, loadVars, sockVars, authVars, gw, uiVars>>

\* catch: toast.error; throw err
CreateUrlReject ==
    /\ createReq.st = "fail"
    /\ createReq' = [createReq EXCEPT !.st = "rejected"]
    /\ NoHandler
    /\ UNCHANGED <<urls, deleteReq, srvLive, nextId, loadVars, sockVars, authVars, gw, uiVars>>

\* ---- deleteUrl
\* removes the record before the gateway answers
DeleteUrlOptimistic(s, id) == RemoveId(s, id)

\* deleteUrl(id) up to its await: nothing is touched before the gateway answers
DeleteUrlBeforeAwait(s, id) == s

DeleteUrlCall(id) ==
    /\ deleteReq.st \in {"idle", "resolved", "rejected"}
    /\ id \in Ids(urls)
    /\ deleteReq' = [st |-> "sent", id |-> id]
    /\ urls' = DeleteUrlBeforeAwait(urls, id)
    /\ NoHandler
    /\ UNCHANGED <<createReq, srvLive, nextId, loadVars, sockVars, authVars, gw, uiVars>>

\* backend: DELETE /api/short-urls/:id answers 2xx
BackendDelete ==
    /\ deleteReq.st = "sent"
    /\ deleteReq.id \in srvLive
    /\ srvLive' = srvLive \ {deleteReq.id}
    /\ deleteReq' = [deleteReq EXCEPT !.st = "ok"]
    /\ NoHandler
    /\ UNCHANGED <<urls, createReq, nextId, loadVars, sockVars, authVars, gw, uiVars>>

\* backend: !response.ok (ApiError) or fetch itself rejects
BackendDeleteFail ==
    /\ deleteReq.st = "sent"
    /\ deleteReq' = [deleteReq EXCEPT !.st = "fail"]
    /\ NoHandler
    /\ UNCHANGED <<urls, createReq, srvLive, nextId, loadVars, sockVars, authVars, gw, uiVars>>

\* setUrls(prev => prev.filter(url => url.id !== id))
DeleteUrlResolve ==
    /\ deleteReq.st = "ok"
    /\ urls' = RemoveId(urls, deleteReq.id)
    /\ deleteReq' = [deleteReq EXCEPT !.st = "resolved"]
    /\ NoHandler
    /\ UNCHANGED <<createReq, srvLive, nextId, loadVars, sockVars, authVars, gw, uiVars>>

\* catch: toast.error; throw err
DeleteUrlReject ==
    /\ deleteReq.st = "fail"
    /\ deleteReq' = [deleteReq EXCEPT !.st = "rejected"]
    /\ NoHandler
    /\ UNCHANGED <<urls, createReq, srvLive, nextId, loadVars, sockVars, authVars, gw, uiVars>>

\* ---- backend activity caused by other devices of the user
\* the same user creates a record on another device: emitUrlCreated
BackendCreateElsewhere ==
    /\ nextId <= MaxId
    /\ srvLive' = srvLive \cup {nextId}
    /\ nextId' = nextId + 1
    /\ NoHandler
    /\ UNCHANGED <<urls, createReq, deleteReq, loadVars, sockVars, authVars, gw, uiVars>>

\* the same user deletes a record on another device: emitUrlDeleted
BackendDeleteElsewhere(i) ==
    /\ i \in srvLive
    /\ srvLive' = srvLive \ {i}
    /\ NoHandler
    /\ UNCHANGED <<urls, createReq, deleteReq, nextId, loadVars, sockVars, authVars, gw, uiVars>>

\* ---- push channel
\* SocketManager.emit dispatches an emitted event e to the useUrls handler
Deliver(e) ==
    /\ urls' = Reconcile(urls, e)
    /\ last' = e
    /\ rel' = Relation(last, rel, e, Reconcile(urls, e) # urls)
    /\ UNCHANGED <<createReq, deleteReq, srvLive, nextId, loadVars, sockVars, authVars, gw, uiVars>>

UrlsInit ==
    /\ urls = <<>>
    /\ createReq = [st |-> "idle", rec |-> NoRec]
    /\ deleteReq = [st |-> "idle", id |-> 0]
    /\ srvLive = {}
    /\ nextId = 1
    /\ last = NoEvent
    /\ rel = "other"

UrlsNext ==
    \/ CreateUrlCall
    \/ BackendCreate
    \/ BackendCreateFail
    \/ CreateUrlResolve
    \/ CreateUrlReject
    \/ \E id \in RecordIds : DeleteUrlCall(id)
    \/ BackendDelete
    \/ BackendDeleteFail
    \/ DeleteUrlResolve
    \/ DeleteUrlReject
    \/ BackendCreateElsewhere
    \/ \E i \in RecordIds : BackendDeleteElsewhere(i)
    \/ \E e \in Emitted : Deliver(e)

\* ---- the handlers alone, on any collection and any event
Records == [id : RecordIds, clicksTotal : 0..MaxClicks]

\* what setUrls(response.data) of a load may have installed
Collections == UNION {[1..n -> Records] : n \in 0..MaxLen}

\* a clickUpdate payload whose newClickCount is undefined
ClickUpdateNoCountEv(i) == [name |-> "clickUpdate", data |-> [shortUrlId |-> i]]

AllEvents ==
    {ClickUpdateEv(i, c) : i \in RecordIds, c \in 1..MaxClicks}
    \cup {ClickUpdateNoCountEv(i) : i \in RecordIds}
    \cup {UrlCreatedEv(r) : r \in Records}
    \cup {UrlDeletedEv(i) : i \in RecordIds}

ReconcileUrls ==
    /\ urls \in Collections
    /\ createReq = [st |-> "idle", rec |-> NoRec]
    /\ deleteReq = [st |-> "idle", id |-> 0]
    /\ srvLive = {}
    /\ nextId = 1
    /\ last = NoEvent
    /\ rel = "other"

ReconcileNext == \E e \in AllEvents : Deliver(e)

\* ---- fetchUrls
\* response.data of getUserUrls(): an array of records, or something else
NoData == [isArray |-> FALSE, items |-> <<>>]

\* lastResp: done - a fetchUrls() has succeeded; set - no event was handled
\* since; data - response.data of that call; overtaken - a call issued after
\* it had succeeded before it
NoResp == [done |-> FALSE, set |-> FALSE, data |-> NoData, overtaken |-> FALSE]

RECURSIVE ListOf(_)
\* the records the backend holds, as GET /api/short-urls lists them
ListOf(S) ==
    IF S = {} THEN <<>>
    ELSE LET m == CHOOSE i \in S : \A j \in S : i <= j
         IN  <<[id |-> m, clicksTotal |-> 0]>> \o ListOf(S \ {m})

\* drops the response of a call that a later call has overtaken
FetchedUrlsInOrder(prev, req) ==
    IF req.overtaken THEN prev
    ELSE IF req.data.isArray THEN req.data.items ELSE <<>>

\* setUrls(Array.isArray(response.data) ? response.data : [])
FetchedUrls(prev, req) ==
    IF req.data.isArray THEN req.data.items ELSE <<>>

\* fetchReqs without the call at position k; the calls issued before it are
\* marked as overtaken when it succeeded
Complete(reqs, k, ok) ==
    LET marked == [j \in 1..Len(reqs) |->
                      IF ok /\ j < k THEN [reqs[j] EXCEPT !.overtaken = TRUE]
                      ELSE reqs[j]]
    IN  SubSeq(marked, 1, k - 1) \o SubSeq(marked, k + 1, Len(reqs))

\* fetchUrls() up to the await
FetchUrlsCall ==
    /\ Len(fetchReqs) < MaxFetch
    /\ fetchReqs' = Append(fetchReqs,
                           [st |-> "sent", data |-> NoData, overtaken |-> FALSE])
    /\ NoHandler
    /\ UNCHANGED <<urls, createReq, deleteReq, srvLive, nextId, chan, lastResp>>
    /\ UNCHANGED <<sockVars, authVars, gw, uiVars>>

\* backend: GET /api/short-urls?...filters[user] answers 2xx with the records
\* it holds now
BackendList(k) ==
    /\ k \in 1..Len(fetchReqs)
    /\ fetchReqs[k].st = "sent"
    /\ fetchReqs' = [fetchReqs EXCEPT ![k].st = "ok",
                        ![k].data = [isArray |-> TRUE, items |-> ListOf(srvLive)]]
    /\ NoHandler
    /\ UNCHANGED <<urls, createReq, deleteReq, srvLive, nextId, chan, lastResp>>
    /\ UNCHANGED <<sockVars, authVars, gw, uiVars>>

\* backend: 2xx with a body whose data is not an array
BackendListNoArray(k) ==
    /\ k \in 1..Len(fetchReqs)
    /\ fetchReqs[k].st = "sent"
    /\ fetchReqs' = [fetchReqs EXCEPT ![k].st = "ok", ![k].data = NoData]
    /\ NoHandler
    /\ UNCHANGED <<urls, createReq, deleteReq, srvLive, nextId, chan, lastResp>>
    /\ UNCHANGED <<sockVars, authVars, gw, uiVars>>

\* backend: non-2xx response, or no response at all
BackendListFail(k) ==
    /\ k \in 1..Len(fetchReqs)
    /\ fetchReqs[k].st = "sent"
    /\ fetchReqs' = [fetchReqs EXCEPT ![k].st = "fail"]
    /\ NoHandler
    /\ UNCHANGED <<urls, createReq, deleteReq, srvLive, nextId, chan, lastResp>>
    /\ UNCHANGED <<sockVars, authVars, gw, uiVars>>

\* fetchUrls() after the await, success
FetchUrlsResolve(k) ==
    /\ k \in 1..Len(fetchReqs)
    /\ fetchReqs[k].st = "ok"
    /\ urls' = FetchedUrls(urls, fetchReqs[k])
    /\ fetchReqs' = Complete(fetchReqs, k, TRUE)
    /\ lastResp' = [done |-> TRUE, set |-> TRUE, data |-> fetchReqs[k].data,
                    overtaken |-> fetchReqs[k].overtaken]
    /\ NoHandler
    /\ UNCHANGED <<createReq, deleteReq, srvLive, nextId, chan>>
    /\ UNCHANGED <<sockVars, authVars, gw, uiVars>>

\* fetchUrls() catch: setError, toast.error; the collection is not touched
FetchUrlsReject(k) ==
    /\ k \in 1..Len(fetchReqs)
    /\ fetchReqs[k].st = "fail"
    /\ fetchReqs' = Complete(fetchReqs, k, FALSE)
    /\ NoHandler
    /\ UNCHANGED <<urls, createReq, deleteReq, srvLive, nextId, chan, lastResp>>
    /\ UNCHANGED <<sockVars, authVars, gw, uiVars>>

\* backend: a record of the user is created and emitUrlCreated pushes it
EmitUrlCreated ==
    /\ nextId <= MaxId
    /\ Len(chan) < MaxChan
    /\ srvLive' = srvLive \cup {nextId}
    /\ nextId' = nextId + 1
    /\ chan' = Append(chan, UrlCreatedEv([id |-> nextId, clicksTotal |-> 0]))
    /\ NoHandler
    /\ UNCHANGED <<urls, createReq, deleteReq, fetchReqs, lastResp>>
    /\ UNCHANGED <<sockVars, authVars, gw, uiVars>>

\* backend: a record of the user is deleted and emitUrlDeleted pushes it
EmitUrlDeleted(i) ==
    /\ i \in srvLive
    /\ Len(chan) < MaxChan
    /\ srvLive' = srvLive \ {i}
    /\ chan' = Append(chan, UrlDeletedEv(i))
    /\ NoHandler
    /\ UNCHANGED <<urls, createReq, deleteReq, nextId, fetchReqs, lastResp>>
    /\ UNCHANGED <<sockVars, authVars, gw, uiVars>>

\* the connected transport hands the oldest pushed event to the handlers
Receive ==
    /\ chan # <<>>
    /\ urls' = Reconcile(urls, Head(chan))
    /\ chan' = Tail(chan)
    /\ last' = Head(chan)
    /\ rel' = Relation(last, rel, Head(chan), Reconcile(urls, Head(chan)) # urls)
    /\ lastResp' = [lastResp EXCEPT !.set = FALSE]
    /\ UNCHANGED <<createReq, deleteReq, srvLive, nextId, fetchReqs>>
    /\ UNCHANGED <<sockVars, authVars, gw, uiVars>>

LoadNext ==
    \/ FetchUrlsCall
    \/ \E k \in 1..MaxFetch : BackendList(k)
    \/ \E k \in 1..MaxFetch : BackendListNoArray(k)
    \/ \E k \in 1..MaxFetch : BackendListFail(k)
    \/ \E k \in 1..MaxFetch : FetchUrlsResolve(k)
    \/ \E k \in 1..MaxFetch : FetchUrlsReject(k)
    \/ EmitUrlCreated
    \/ \E i \in RecordIds : EmitUrlDeleted(i)
    \/ Receive

\* ============================================================ AuthManager

\* the tokens the backend issues: "t1" and "t2" are JWTs, "tx" is a string
\* that is not one
Tokens == {"t1", "t2", "tx"}

\* JSON.parse(atob(token.split('.')[1])): the payload, or the exception
Decode(tok) ==
    CASE tok = "t1" -> [ok |-> TRUE, exp |-> 1]
      [] tok = "t2" -> [ok |-> TRUE, exp |-> 2]
      [] OTHER      -> [ok |-> FALSE, exp |-> 0]

\* response.user of the AuthResponse that carries the token
UserOf(tok) == IF tok = "t2" THEN 2 ELSE 1

UserIds == {1, 2}

\* the values Date.now() takes: around each exp * 1000
Times == {0} \cup {e * 1000 + d : e \in {1, 2}, d \in {-1, 0, 1}}

\* compares with > instead of >=
isTokenExpiredStrict(tok, t) ==
    IF tok = "null" THEN TRUE
    ELSE IF ~Decode(tok).ok THEN TRUE
    ELSE t > Decode(tok).exp * 1000

\* isTokenExpired(): Date.now() >= payload.exp * 1000
isTokenExpired(tok, t) ==
    IF tok = "null" THEN TRUE
    ELSE IF ~Decode(tok).ok THEN TRUE
    ELSE t >= Decode(tok).exp * 1000

\* isAuthenticated() on the state <<tok, flag>> at time t
IsAuthenticated(tok, flag, t) == flag /\ ~isTokenExpired(tok, t)

NoStorage == [auth_token |-> "null", auth_user |-> 0]

\* getState() / the state handed to the listeners
AuthState(tok, usr, flag, loading) ==
    [user |-> usr, token |-> tok, isAuthenticated |-> flag, isLoading |-> loading]

\* ========================================================== SocketManager

maxReconnectAttempts == 5

Slots == 1..MaxSockets

\* a transport that can still raise events
Live == {s \in Slots : sockets[s] \in {"connecting", "connected"}}

\* this.socket?.connected
SocketConnected == socket # 0 /\ sockets[socket] = "connected"

\* The slots after this.socket stops referring to a dead transport: a socket
\* that is closed and no longer referenced is gone.
Forget(ss, cur) ==
    [s \in Slots |-> IF s = cur /\ ss[s] = "closed" THEN "none" ELSE ss[s]]

FreeSlots(ss) == {s \in Slots : ss[s] = "none"}

\* the handshake tokens of the transports that still exist
HandshakesAfter(ss, hs) ==
    [s \in Slots |-> IF ss[s] = "none" THEN "null" ELSE hs[s]]

\* a connection that ended takes its server-side socket, and what was sent
\* over it, with it
JoinsAfter(ss, js) ==
    [s \in Slots |-> IF ss[s] = "connected" THEN js[s] ELSE {}]

\* connect(): returns when this.socket is connected or no token is there;
\* otherwise io() creates a transport with auth.token = tok, this.socket
\* refers to it and the listeners of setupEventListeners are attached to it.
\* The transport this.socket referred to before is not closed.
connect(tok) ==
    IF SocketConnected \/ tok = "null"
    THEN UNCHANGED <<sockets, socket, handshake>>
    ELSE \E n \in FreeSlots(Forget(sockets, socket)) :
            /\ \A m \in FreeSlots(Forget(sockets, socket)) : n <= m
            /\ sockets' = [Forget(sockets, socket) EXCEPT ![n] = "connecting"]
            /\ socket' = n
            /\ handshake' =
                  HandshakesAfter(sockets', [handshake EXCEPT ![n] = tok])

reconnectDelay == 1000

RECURSIVE Pow2(_)
\* Math.pow(2, n); 2^(-1) is not an integer and is never asked for, since the
\* attempt is counted before the delay is computed
Pow2(n) == IF n <= 0 THEN 1 ELSE 2 * Pow2(n - 1)

\* the delay an attempt would get if it were counted after the delay is computed
DelayBeforeCount(attempts) == reconnectDelay * Pow2(attempts)

Delay(attempts) == reconnectDelay * Pow2(attempts - 1)

\* a handleReconnect() that counts every attempt
handleReconnectUncapped ==
    /\ timers < MaxTimers
    /\ reconnectAttempts' = reconnectAttempts + 1
    /\ lastDelay' = Delay(reconnectAttempts')
    /\ timers' = timers + 1
    /\ UNCHANGED maxReachedEmits

\* handleReconnect(): at the cap emit the terminal event, otherwise count the
\* attempt and start a timer with the delay of that attempt
handleReconnect ==
    IF reconnectAttempts >= maxReconnectAttempts
    THEN /\ maxReachedEmits < MaxEmits
         /\ maxReachedEmits' = maxReachedEmits + 1
         /\ UNCHANGED <<reconnectAttempts, lastDelay, timers>>
    ELSE /\ timers < MaxTimers
         /\ reconnectAttempts' = reconnectAttempts + 1
         /\ lastDelay' = Delay(reconnectAttempts')
         /\ timers' = timers + 1
         /\ UNCHANGED maxReachedEmits

\* disconnect(): only when this.socket is set
disconnect ==
    IF socket # 0
    THEN /\ sockets' = [sockets EXCEPT ![socket] = "none"]
         /\ socket' = 0
         /\ isConnected' = FALSE
         /\ listeners' = {}
         /\ handshake' = HandshakesAfter(sockets', handshake)
    ELSE UNCHANGED <<sockets, socket, isConnected, listeners, handshake>>

\* a joinUserRoom() whose message is handed to the transport in any state
joinUserRoomUnguarded(usr, ss, cur, js) ==
    IF usr # 0 /\ cur # 0
    THEN [js EXCEPT ![cur] = @ \cup {usr}]
    ELSE js

\* joinUserRoom() on the transport cur of the slots ss: sendEvent('joinRoom',
\* {room: `user_${user.id}`}) goes out only when a user is there and
\* this.socket is connected
joinUserRoom(usr, ss, cur, js) ==
    IF usr # 0 /\ cur # 0 /\ ss[cur] = "connected"
    THEN [js EXCEPT ![cur] = @ \cup {usr}]
    ELSE js

\* connect() called by the application: useSocket().connect
Connect ==
    /\ connect(token)
    /\ localDisc' = FALSE
    /\ maxReachedEmits' = 0
    /\ UNCHANGED <<isConnected, reconnectAttempts, lastDelay, timers, listeners, joinSent>>
    /\ UNCHANGED <<urlVars, loadVars, authVars, gw, uiVars>>

\* disconnect() called by the application: useSocket().disconnect
Disconnect ==
    /\ disconnect
    /\ joinSent' = JoinsAfter(sockets', joinSent)
    /\ localDisc' = TRUE
    /\ UNCHANGED <<reconnectAttempts, lastDelay, timers, maxReachedEmits>>
    /\ UNCHANGED <<urlVars, loadVars, authVars, gw, uiVars>>

\* joinUserRoom() called by the application: useSocket().joinUserRoom
JoinUserRoom ==
    /\ joinSent' = joinUserRoom(user, sockets, socket, joinSent)
    /\ joinSent' # joinSent
    /\ UNCHANGED <<sockets, socket, isConnected, reconnectAttempts, lastDelay, timers,
                   listeners, handshake, maxReachedEmits, localDisc>>
    /\ UNCHANGED <<urlVars, loadVars, authVars, gw, uiVars>>

\* socket.on('connect')
SockConnect(s) ==
    /\ sockets[s] = "connecting"
    /\ sockets' = [sockets EXCEPT ![s] = "connected"]
    /\ isConnected' = TRUE
    /\ reconnectAttempts' = 0
    /\ lastDelay' = 0
    /\ maxReachedEmits' = 0
    /\ UNCHANGED <<socket, timers, listeners, handshake, joinSent, localDisc>>
    /\ UNCHANGED <<urlVars, loadVars, authVars, gw, uiVars>>

\* socket.on('connect_error'): the transport keeps trying by itself (retry),
\* or the server denied the handshake and the transport stays closed
SockConnectError(s, retry) ==
    /\ sockets[s] = "connecting"
    /\ sockets' = [sockets EXCEPT ![s] =
                      IF retry THEN "connecting"
                      ELSE IF s = socket THEN "closed" ELSE "none"]
    /\ handshake' = HandshakesAfter(sockets', handshake)
    /\ isConnected' = FALSE
    /\ handleReconnect
    /\ UNCHANGED <<socket, listeners, joinSent, localDisc>>
    /\ UNCHANGED <<urlVars, loadVars, authVars, gw, uiVars>>

\* socket.on('disconnect', reason): after 'io server disconnect' the transport
\* stays closed; after a transport failure it reconnects by itself, with the
\* auth object it was created with
SockDisconnect(s, reason) ==
    /\ sockets[s] = "connected"
    /\ isConnected' = FALSE
    /\ IF reason = "io server disconnect"
       THEN /\ sockets' = [sockets EXCEPT ![s] =
                              IF s = socket THEN "closed" ELSE "none"]
            /\ handleReconnect
       ELSE /\ sockets' = [sockets EXCEPT ![s] = "connecting"]
            /\ UNCHANGED <<reconnectAttempts, lastDelay, timers, maxReachedEmits>>
    /\ handshake' = HandshakesAfter(sockets', handshake)
    /\ joinSent' = JoinsAfter(sockets', joinSent)
    /\ UNCHANGED <<socket, listeners, localDisc>>
    /\ UNCHANGED <<urlVars, loadVars, authVars, gw, uiVars>>

\* the setTimeout callback of handleReconnect
TimerFire ==
    /\ timers > 0
    /\ timers' = timers - 1
    /\ IF ~isConnected THEN connect(token)
       ELSE UNCHANGED <<sockets, socket, handshake>>
    /\ UNCHANGED <<isConnected, reconnectAttempts, lastDelay, listeners,
                   joinSent, maxReachedEmits, localDisc>>
    /\ UNCHANGED <<urlVars, loadVars, authVars, gw, uiVars>>

Subscriptions == {<<"connection", "h1">>, <<"clickUpdate", "h2">>}

\* on(event, callback)
On(sub) ==
    /\ sub \notin listeners
    /\ listeners' = listeners \cup {sub}
    /\ UNCHANGED <<sockets, socket, isConnected, reconnectAttempts, lastDelay, timers,
                   handshake, joinSent, maxReachedEmits, localDisc>>
    /\ UNCHANGED <<urlVars, loadVars, authVars, gw, uiVars>>

\* the registry without every callback of the event of sub
UnsubscribeEvent(ls, sub) == {l \in ls : l[1] # sub[1]}

\* the registry after the callback of sub is deleted from the Set of its
\* event (an event whose Set became empty is deleted from the Map)
Unsubscribe(ls, sub) == ls \ {sub}

\* the unsubscribe function on() returned
Off(sub) ==
    /\ sub \in listeners
    /\ listeners' = Unsubscribe(listeners, sub)
    /\ UNCHANGED <<sockets, socket, isConnected, reconnectAttempts, lastDelay, timers,
                   handshake, joinSent, maxReachedEmits, localDisc>>
    /\ UNCHANGED <<urlVars, loadVars, authVars, gw, uiVars>>

Events == {"connection", "clickUpdate", "urlCreated"}

Callbacks == {"h1", "h2"}

\* what a component can register: any callback for any event
Registrations == Events \X Callbacks

NoDispatch ==
    [event |-> "none", handlers |-> {}, prevEvent |-> "none", prevHandlers |-> {}]

\* emit(event, data): the callbacks of the Set of the event, each called once
emit(ls, ev) == {l[2] : l \in {x \in ls : x[1] = ev}}

\* a socket event the manager re-emits to its listeners: this.emit(ev, data)
SockEvent(ev) ==
    /\ dispatched' = [event |-> ev, handlers |-> emit(listeners, ev),
                      prevEvent |-> dispatched.event,
                      prevHandlers |-> dispatched.handlers]
    /\ UNCHANGED <<urlVars, loadVars, sockVars, authVars, gw, formVars, view>>

RegistryNext ==
    \/ \E sub \in Registrations : On(sub)
    \/ \E sub \in Registrations : Off(sub)
    \/ \E ev \in Events : SockEvent(ev)

\* initializeSocketConnection() on the AuthManager state <<tok, usr, flag>>:
\* connect() and, right after it, joinUserRoom()
initializeSocketConnection(tok, usr, flag) ==
    IF IsAuthenticated(tok, flag, now)
    THEN /\ connect(tok)
         /\ joinSent' = joinUserRoom(usr, sockets', socket', joinSent)
         /\ localDisc' = FALSE
         /\ maxReachedEmits' = 0
         /\ UNCHANGED <<isConnected, listeners>>
    ELSE UNCHANGED <<sockets, socket, handshake, joinSent, localDisc,
                     maxReachedEmits, isConnected, listeners>>

\* cleanupSocketConnection(): leaveUserRoom(), which sends a leaveRoom
\* message at most, then disconnect()
cleanupSocketConnection ==
    /\ disconnect
    /\ joinSent' = JoinsAfter(sockets', joinSent)
    /\ localDisc' = TRUE
    /\ UNCHANGED maxReachedEmits

\* the listener useAuth subscribes, called with the state <<tok, usr, flag>>
OnAuthState(tok, usr, flag) ==
    /\ IF flag
       THEN initializeSocketConnection(tok, usr, flag)
       ELSE cleanupSocketConnection
    /\ UNCHANGED <<reconnectAttempts, lastDelay, timers>>

\* ---- AuthManager: the operations

\* updateState(updates): the new state, then notifyListeners()
updateState(tok, usr, flag, loading) ==
    /\ token' = tok
    /\ user' = usr
    /\ isAuthenticated' = flag
    /\ isLoading' = loading
    /\ seen' = AuthState(tok, usr, flag, loading)
    /\ OnAuthState(tok, usr, flag)

\* login() / register() after the awaited gateway call returned response:
\* both keys are stored, then the state is updated
LoginSuccess(jwt, usr) ==
    /\ storage' = [auth_token |-> jwt, auth_user |-> usr]
    /\ updateState(jwt, usr, TRUE, FALSE)

\* clearAuth()
clearAuth == storage' = NoStorage

\* logout(): clearAuth(), then updateState with the empty session
logout ==
    /\ clearAuth
    /\ updateState("null", 0, FALSE, FALSE)

\* login() or register() from the call to its success, taken as one step
Login(tok) ==
    /\ loginReq.st = "idle"
    /\ LoginSuccess(tok, UserOf(tok))
    /\ authChecked' = "none"
    /\ UNCHANGED <<now, loginReq, refreshReq>>
    /\ UNCHANGED <<urlVars, loadVars, gw, uiVars>>

\* logout() called by the application
Logout ==
    /\ logout
    /\ authChecked' = "none"
    /\ UNCHANGED <<now, loginReq, refreshReq>>
    /\ UNCHANGED <<urlVars, loadVars, gw, uiVars>>

\* refreshUser() from the call to its success, taken as one step
RefreshUser ==
    /\ isAuthenticated
    /\ refreshReq.st = "idle"
    /\ storage' = [storage EXCEPT !.auth_user = user]
    /\ updateState(token, user, isAuthenticated, isLoading)
    /\ authChecked' = "none"
    /\ UNCHANGED <<now, loginReq, refreshReq>>
    /\ UNCHANGED <<urlVars, loadVars, gw, uiVars>>

\* login() / register() up to the await: updateState({isLoading: true})
LoginCall ==
    /\ loginReq.st \in {"idle", "resolved", "rejected"}
    /\ loginReq' = [st |-> "sent", jwt |-> "null"]
    /\ updateState(token, user, isAuthenticated, TRUE)
    /\ authChecked' = "none"
    /\ UNCHANGED <<storage, now, refreshReq>>
    /\ UNCHANGED <<urlVars, loadVars, gw, uiVars>>

\* backend: POST /api/auth/local(/register) answers 2xx with {jwt, user}
BackendLogin(tok) ==
    /\ loginReq.st = "sent"
    /\ loginReq' = [st |-> "ok", jwt |-> tok]
    /\ UNCHANGED <<token, user, isAuthenticated, isLoading, storage, now,
                   refreshReq, seen, authChecked>>
    /\ UNCHANGED <<urlVars, loadVars, sockVars, gw, uiVars>>

\* backend: non-2xx response, or no response at all
BackendLoginFail ==
    /\ loginReq.st = "sent"
    /\ loginReq' = [st |-> "fail", jwt |-> "null"]
    /\ UNCHANGED <<token, user, isAuthenticated, isLoading, storage, now,
                   refreshReq, seen, authChecked>>
    /\ UNCHANGED <<urlVars, loadVars, sockVars, gw, uiVars>>

\* login() / register() after the await, success
LoginResolve ==
    /\ loginReq.st = "ok"
    /\ LoginSuccess(loginReq.jwt, UserOf(loginReq.jwt))
    /\ loginReq' = [loginReq EXCEPT !.st = "resolved"]
    /\ authChecked' = "none"
    /\ UNCHANGED <<now, refreshReq>>
    /\ UNCHANGED <<urlVars, loadVars, gw, uiVars>>

\* login() / register() catch: updateState({isLoading: false}); throw error
LoginReject ==
    /\ loginReq.st = "fail"
    /\ updateState(token, user, isAuthenticated, FALSE)
    /\ loginReq' = [loginReq EXCEPT !.st = "rejected"]
    /\ authChecked' = "none"
    /\ UNCHANGED <<storage, now, refreshReq>>
    /\ UNCHANGED <<urlVars, loadVars, gw, uiVars>>

\* refreshUser() up to the await: returns at once when not authenticated;
\* getMe() sends the token localStorage holds now
RefreshUserCall ==
    /\ refreshReq.st \in {"idle", "resolved", "rejected"}
    /\ isAuthenticated
    /\ refreshReq' = [st |-> "sent", tok |-> storage.auth_token, user |-> 0]
    /\ UNCHANGED <<token, user, isAuthenticated, isLoading, storage, now,
                   loginReq, seen, authChecked>>
    /\ UNCHANGED <<urlVars, loadVars, sockVars, gw, uiVars>>

\* backend: GET /api/users/me answers 2xx with the user of the token sent
BackendGetMe ==
    /\ refreshReq.st = "sent"
    /\ refreshReq.tok # "null"
    /\ refreshReq' = [refreshReq EXCEPT !.st = "ok", !.user = UserOf(refreshReq.tok)]
    /\ UNCHANGED <<token, user, isAuthenticated, isLoading, storage, now,
                   loginReq, seen, authChecked>>
    /\ UNCHANGED <<urlVars, loadVars, sockVars, gw, uiVars>>

\* backend: non-2xx response, or no response at all
BackendGetMeFail ==
    /\ refreshReq.st = "sent"
    /\ refreshReq' = [refreshReq EXCEPT !.st = "fail"]
    /\ UNCHANGED <<token, user, isAuthenticated, isLoading, storage, now,
                   loginReq, seen, authChecked>>
    /\ UNCHANGED <<urlVars, loadVars, sockVars, gw, uiVars>>

\* refreshUser() after the await, success:
\* localStorage.setItem('auth_user', ...); updateState({user})
RefreshUserResolve ==
    /\ refreshReq.st = "ok"
    /\ storage' = [storage EXCEPT !.auth_user = refreshReq.user]
    /\ updateState(token, refreshReq.user, isAuthenticated, isLoading)
    /\ refreshReq' = [refreshReq EXCEPT !.st = "resolved"]
    /\ authChecked' = "none"
    /\ UNCHANGED <<now, loginReq>>
    /\ UNCHANGED <<urlVars, loadVars, gw, uiVars>>

\* rethrows and leaves the session as it is
RefreshUserCatchKeep ==
    UNCHANGED <<storage, token, user, isAuthenticated, isLoading, seen, sockVars>>

\* the catch block of refreshUser(): this.logout(), then throw error
RefreshUserCatch == logout

RefreshUserReject ==
    /\ refreshReq.st = "fail"
    /\ RefreshUserCatch
    /\ refreshReq' = [refreshReq EXCEPT !.st = "rejected"]
    /\ authChecked' = "none"
    /\ UNCHANGED <<now, loginReq>>
    /\ UNCHANGED <<urlVars, loadVars, gw, uiVars>>

\* time passes
Tick(t) ==
    /\ t > now
    /\ now' = t
    /\ authChecked' = "none"
    /\ UNCHANGED <<token, user, isAuthenticated, isLoading, storage, loginReq,
                   refreshReq, seen>>
    /\ UNCHANGED <<urlVars, loadVars, sockVars, gw, uiVars>>

\* requireAuth(): the application evaluates authManager.isAuthenticated()
RequireAuth ==
    /\ authChecked' =
          IF IsAuthenticated(token, isAuthenticated, now) THEN "true" ELSE "false"
    /\ UNCHANGED <<token, user, isAuthenticated, isLoading, storage, now,
                   loginReq, refreshReq, seen>>
    /\ UNCHANGED <<urlVars, loadVars, sockVars, gw, uiVars>>

\* ============================================================== ApiClient

Ops == {"login", "register", "getMe", "createShortUrl", "getUserUrls",
        "getUrlByShortCode", "recordClick", "getUrlAnalytics",
        "checkCustomCodeAvailability", "deleteShortUrl"}

\* what response.json() finds: no JSON at all, JSON without an error member,
\* or a StrapiError {error: {status, message}} (status 0 and message "" are
\* the falsy values)
Bodies ==
    {[shape |-> "notJson"], [shape |-> "other"]}
    \cup {[shape |-> "strapi", status |-> st, message |-> m] :
              st \in {0, 403}, m \in {"", "Forbidden"}}

\* what fetch() settles with: a rejection (no response at all) or a Response
Outcomes ==
    {[kind |-> "network"]}
    \cup {[kind |-> "response", status |-> st, body |-> b] :
              st \in {200, 204, 401, 500}, b \in Bodies}

\* response.ok
Ok(resp) == resp.status >= 200 /\ resp.status <= 299

Resolved == [settled |-> "resolved"]

\* new ApiError(message, status)
ApiError(message, status) ==
    [settled |-> "rejected",
     error |-> [name |-> "ApiError", message |-> message, status |-> status]]

\* any other exception: it has a name and a message, no status
Thrown(name, message) ==
    [settled |-> "rejected", error |-> [name |-> name, message |-> message]]

\* handleResponse(response)
handleResponse(resp) ==
    IF ~Ok(resp)
    THEN LET errorData ==
                 IF resp.body.shape = "notJson"
                 THEN [shape |-> "strapi", status |-> resp.status,
                       message |-> "Network error occurred"]
                 ELSE resp.body
         IN  IF errorData.shape # "strapi"
             THEN Thrown("TypeError", "Cannot read properties of undefined")
             ELSE ApiError(IF errorData.message # "" THEN errorData.message
                           ELSE "An error occurred",
                           IF errorData.status # 0 THEN errorData.status
                           ELSE resp.status)
    ELSE IF resp.body.shape = "notJson"
         THEN Thrown("SyntaxError", "Unexpected end of JSON input")
         ELSE Resolved

\* what the promise of the gateway operation op settles with when fetch()
\* settles with out and localStorage holds auth_user = stored
Settle(op, out, stored) ==
    IF op = "getUserUrls" /\ stored = 0
    THEN Thrown("Error", "User not authenticated")
    ELSE IF out.kind = "network"
    THEN Thrown("TypeError", "Failed to fetch")
    ELSE IF op = "recordClick"
    THEN Resolved
    ELSE IF op = "deleteShortUrl"
    THEN IF ~Ok(out) THEN ApiError("Failed to delete URL", out.status)
         ELSE Resolved
    ELSE handleResponse(out)

\* one call of a gateway operation, from the call to the settling of its promise
GatewayCall(op, out) ==
    /\ gw' = [op |-> op, outcome |-> out,
              result |-> Settle(op, out, storage.auth_user)]
    /\ UNCHANGED <<urlVars, loadVars, sockVars, authVars, uiVars>>

GwNext ==
    \/ \E op \in Ops, out \in Outcomes : GatewayCall(op, out)
    \/ \E tok \in Tokens : Login(tok)
    \/ Logout

\* ====================================================== UrlShorteningForm

\* a sample of the characters /^[a-zA-Z0-9_-]+$/ accepts; "!" is not one
CodeChars == {"a", "b", "c", "d"}

\* the values typed into the custom-code input: empty, too short, two codes
\* the schema accepts, one with a character it rejects
Codes == {<<>>, <<"a", "b">>, <<"a", "b", "c">>, <<"a", "b", "d">>,
          <<"a", "!", "c">>}

\* validateCustomCode(code).isValid: the two refinements of urlSchema.customCode
validateCustomCode(code) ==
    \/ code = <<>>
    \/ /\ \A i \in 1..Len(code) : code[i] \in CodeChars
       /\ Len(code) >= 3
       /\ Len(code) <= 20

NoStatus == [checking |-> FALSE, available |-> "null"]

\* a boolean as a value of customCodeStatus.available
Available(flag) == IF flag THEN "true" ELSE "false"

NoCheck == [done |-> FALSE, code |-> <<>>, available |-> FALSE]

NoApplied == [done |-> FALSE, code |-> <<>>]

NoTimeout == [pending |-> FALSE, code |-> <<>>]

NoSubmit == [done |-> FALSE, custom |-> FALSE, code |-> <<>>, check |-> NoCheck]

\* the effect on [customCode, useCustomCode]: the cleanup of the run before
\* cleared the timer; a new one is started for the value the run sees
CheckEffect(use, code) ==
    IF ~use \/ code = <<>>
    THEN NoTimeout
    ELSE [pending |-> TRUE, code |-> code]

RemoveAt(s, k) == [i \in 1..(Len(s) - 1) |-> IF i < k THEN s[i] ELSE s[i + 1]]

\* the switch: setUseCustomCode
SetUseCustomCode ==
    /\ useCustomCode' = ~useCustomCode
    /\ timeoutId' = CheckEffect(useCustomCode', customCode)
    /\ applied' = NoApplied
    /\ UNCHANGED <<customCode, customCodeStatus, checks, lastCheck, submitted>>
    /\ UNCHANGED <<urlVars, loadVars, sockVars, authVars, gw, regVars, view>>

\* the input, rendered while the switch is on, changes to c
TypeCustomCode(c) ==
    /\ useCustomCode
    /\ c # customCode
    /\ customCode' = c
    /\ timeoutId' = CheckEffect(useCustomCode, c)
    /\ applied' = NoApplied
    /\ UNCHANGED <<useCustomCode, customCodeStatus, checks, lastCheck, submitted>>
    /\ UNCHANGED <<urlVars, loadVars, sockVars, authVars, gw, regVars, view>>

\* checkCode(), run by the timer, up to its await: a value the schema rejects
\* is reported unavailable at once, for any other the request is sent
checkCode ==
    /\ timeoutId.pending
    /\ timeoutId' = NoTimeout
    /\ IF ~validateCustomCode(timeoutId.code)
       THEN /\ customCodeStatus' = [checking |-> FALSE, available |-> "false"]
            /\ applied' = [done |-> TRUE, code |-> timeoutId.code]
            /\ UNCHANGED checks
       ELSE /\ Len(checks) < MaxChecks
            /\ customCodeStatus' = [customCodeStatus EXCEPT !.checking = TRUE]
            /\ checks' = Append(checks, timeoutId.code)
            /\ applied' = NoApplied
    /\ UNCHANGED <<useCustomCode, customCode, lastCheck, submitted>>
    /\ UNCHANGED <<urlVars, loadVars, sockVars, authVars, gw, regVars, view>>

\* checkCode() after its await: the k-th call in flight returns `available`
\* (checkCustomCode of useUrls returns false when the request fails) and the
\* status is replaced
CheckCodeResolve(k, available) ==
    /\ k \in 1..Len(checks)
    /\ customCodeStatus' =
          [checking |-> FALSE, available |-> Available(available)]
    /\ lastCheck' = [done |-> TRUE, code |-> checks[k], available |-> available]
    /\ applied' = [done |-> TRUE, code |-> checks[k]]
    /\ checks' = RemoveAt(checks, k)
    /\ UNCHANGED <<useCustomCode, customCode, timeoutId, submitted>>
    /\ UNCHANGED <<urlVars, loadVars, sockVars, authVars, gw, regVars, view>>

\* the submit button is enabled
SubmitEnabled == ~(useCustomCode /\ customCodeStatus.available # "true")

\* submitData.customCode of handleFormSubmit is set
HasCustomCode == useCustomCode /\ customCode # <<>>

\* handleSubmit(handleFormSubmit): the resolver accepts the form, the guard
\* on customCodeStatus.available passes, onSubmit(submitData) is called; when
\* it succeeds (ok) the form is reset
HandleFormSubmit(ok) ==
    /\ SubmitEnabled
    /\ validateCustomCode(customCode)
    /\ ~(HasCustomCode /\ customCodeStatus.available # "true")
    /\ submitted' = [done |-> TRUE, custom |-> HasCustomCode,
                     code |-> IF HasCustomCode THEN customCode ELSE <<>>,
                     check |-> lastCheck]
    /\ applied' = NoApplied
    /\ IF ok
       THEN /\ customCode' = <<>>
            /\ useCustomCode' = FALSE
            /\ customCodeStatus' = NoStatus
            /\ timeoutId' = NoTimeout
       ELSE UNCHANGED <<customCode, useCustomCode, customCodeStatus, timeoutId>>
    /\ UNCHANGED <<checks, lastCheck>>
    /\ UNCHANGED <<urlVars, loadVars, sockVars, authVars, gw, regVars, view>>

FormNext ==
    \/ SetUseCustomCode
    \/ \E c \in Codes : TypeCustomCode(c)
    \/ checkCode
    \/ \E k \in 1..MaxChecks, available \in BOOLEAN : CheckCodeResolve(k, available)
    \/ \E ok \in BOOLEAN : HandleFormSubmit(ok)

\* ========================================================= dashboard list

\* 0 stands for a record without expirationDate; the other dates and the
\* rendering times are instants 1..MaxDate
DatedRecords == [id : RecordIds, expirationDate : 0..MaxDate]

DatedCollections ==
    UNION {[1..n -> DatedRecords] : n \in 0..MaxLen}

\* getActiveUrls() of useUrls at the time t
getActiveUrls(us, t) ==
    LET active(url) == IF url.expirationDate = 0 THEN TRUE
                       ELSE url.expirationDate > t
    IN  SelectSeq(us, active)

\* getExpiredUrls() of useUrls at the time t
getExpiredUrls(us, t) ==
    LET expired(url) == IF url.expirationDate = 0 THEN FALSE
                        ELSE url.expirationDate <= t
    IN  SelectSeq(us, expired)

\* isExpired(expirationDate) of the validation helpers at the time t
isExpired(expirationDate, t) ==
    IF expirationDate = 0 THEN FALSE ELSE expirationDate < t

\* activeUrls of UrlList
ListActiveUrls(us, t) ==
    LET keep(url) == ~isExpired(url.expirationDate, t)
    IN  SelectSeq(us, keep)

\* expiredUrls of UrlList
ListExpiredUrls(us, t) ==
    LET keep(url) == isExpired(url.expirationDate, t)
    IN  SelectSeq(us, keep)

Rendering(us, t) ==
    [urls |-> us, now |-> t,
     active |-> getActiveUrls(us, t), expired |-> getExpiredUrls(us, t),
     listActive |-> ListActiveUrls(us, t),
     listExpired |-> ListExpiredUrls(us, t)]

\* the dashboard renders the collection us at the time t
Render(us, t) ==
    /\ view' = Rendering(us, t)
    /\ UNCHANGED <<urlVars, loadVars, sockVars, authVars, gw, regVars, formVars>>

ViewNext == \E us \in DatedCollections, t \in 1..MaxDate : Render(us, t)

\* ============================================================ initial states

RegInit == dispatched = NoDispatch

FormInit ==
    /\ useCustomCode = FALSE
    /\ customCode = <<>>
    /\ customCodeStatus = NoStatus
    /\ timeoutId = NoTimeout
    /\ checks = <<>>
    /\ lastCheck = NoCheck
    /\ applied = NoApplied
    /\ submitted = NoSubmit

ViewInit == view = Rendering(<<>>, 1)

UiInit == RegInit /\ FormInit /\ ViewInit

SockInit ==
    /\ sockets = [s \in Slots |-> "none"]
    /\ socket = 0
    /\ isConnected = FALSE
    /\ reconnectAttempts = 0
    /\ lastDelay = 0
    /\ timers = 0
    /\ listeners = {}
    /\ handshake = [s \in Slots |-> "null"]
    /\ joinSent = [s \in Slots |-> {}]
    /\ maxReachedEmits = 0
    /\ localDisc = FALSE

AuthInit ==
    /\ token = "null"
    /\ user = 0
    /\ isAuthenticated = FALSE
    /\ isLoading = FALSE
    /\ storage = NoStorage
    /\ now = 0
    /\ loginReq = [st |-> "idle", jwt |-> "null"]
    /\ refreshReq = [st |-> "idle", tok |-> "null", user |-> 0]
    /\ seen = AuthState("null", 0, FALSE, FALSE)
    /\ authChecked = "none"

SockNext ==
    \/ Connect
    \/ Disconnect
    \/ JoinUserRoom
    \/ \E tok \in {"t1", "t2"} : Login(tok)
    \/ Logout
    \/ RefreshUser
    \/ \E s \in Slots : SockConnect(s)
    \/ \E s \in Slots, retry \in BOOLEAN : SockConnectError(s, retry)
    \/ \E s \in Slots, reason \in {"io server disconnect", "transport close"} :
          SockDisconnect(s, reason)
    \/ TimerFire
    \/ \E sub \in Subscriptions : On(sub)
    \/ \E sub \in Subscriptions : Off(sub)

AuthNext ==
    \/ LoginCall
    \/ \E tok \in Tokens : BackendLogin(tok)
    \/ BackendLoginFail
    \/ LoginResolve
    \/ LoginReject
    \/ Logout
    \/ RefreshUserCall
    \/ BackendGetMe
    \/ BackendGetMeFail
    \/ RefreshUserResolve
    \/ RefreshUserReject
    \/ \E t \in Times : Tick(t)
    \/ RequireAuth

\* ========================================================= specifications

LoadInit ==
    /\ fetchReqs = <<>>
    /\ chan = <<>>
    /\ lastResp = NoResp

GwInit == gw = [op |-> "none"]

Init == UrlsInit /\ LoadInit /\ SockInit /\ AuthInit /\ GwInit /\ UiInit

SpecUrls == Init /\ [][UrlsNext]_vars

SpecSock == Init /\ [][SockNext]_vars

SpecAuth == Init /\ [][AuthNext]_vars

SpecLoad == Init /\ [][LoadNext]_vars

SpecGateway == Init /\ [][GwNext]_vars

\* the listener registry alone
SpecRegistry == Init /\ [][RegistryNext]_vars

\* the SocketManager with one session: no second token, no listeners
ReconnectNext ==
    \/ Connect
    \/ Disconnect
    \/ JoinUserRoom
    \/ Login("t1")
    \/ Logout
    \/ \E s \in Slots : SockConnect(s)
    \/ \E s \in Slots, retry \in BOOLEAN : SockConnectError(s, retry)
    \/ \E s \in Slots, reason \in {"io server disconnect", "transport close"} :
          SockDisconnect(s, reason)
    \/ TimerFire

SpecReconnect == Init /\ [][ReconnectNext]_vars

SpecForm == Init /\ [][FormNext]_vars

SpecView == Init /\ [][ViewNext]_vars

Next ==
    \/ UrlsNext \/ LoadNext \/ SockNext \/ AuthNext \/ GwNext
    \/ RegistryNext \/ FormNext \/ ViewNext

Spec == Init /\ [][Next]_vars

ReconcileInit ==
    ReconcileUrls /\ LoadInit /\ SockInit /\ AuthInit /\ GwInit /\ UiInit

SpecReconcile == ReconcileInit /\ [][ReconcileNext]_vars

\* ============================================================= properties

\* C1: delivering the same pushed event twice in a row through the useUrls
\* handlers leaves the collection as the first delivery left it.
C1_Idempotent ==
    [][(last' # NoEvent /\ last' = last) => urls' = urls]_vars

C1_Witness ==
    /\ rel = "same"
    /\ last.name = "clickUpdate"
    /\ "newClickCount" \in DOMAIN last.data
    /\ \E k \in 1..Len(urls) :
          /\ urls[k].id = last.data.shortUrlId
          /\ urls[k].clicksTotal = last.data.newClickCount

\* C2: once createUrl has resolved with record i, a urlCreated push for i
\* leaves exactly one record with id i in the collection.
C2_OneRecordAfterPush ==
    (/\ createReq.st = "resolved"
     /\ last.name = "urlCreated"
     /\ last.data.shortUrl.id = createReq.rec.id)
        => Count(urls, createReq.rec.id) = 1

\* C3: a clickUpdate never adds an id to the collection; in particular the
\* id a urlDeleted has just removed is still absent after a clickUpdate for it.
C3_NoResurrection ==
    [][last'.name = "clickUpdate" =>
          /\ Ids(urls') \subseteq Ids(urls)
          /\ (rel' = "removedThenClick" =>
                 last'.data.shortUrlId \notin Ids(urls'))]_vars

C3_Witness ==
    /\ rel = "removedThenClick"
    /\ last.data.shortUrlId \notin Ids(urls)

\* C4: of the steps of a deleteUrl(id) call, only the one that handles the
\* gateway's success removes id; the call itself, the gateway's work and a
\* failure leave the collection as it is, and a failure is rethrown.
C4_DeleteOnlyOnSuccess ==
    [][deleteReq' # deleteReq =>
          CASE deleteReq.st = "ok" ->
                   /\ deleteReq'.st = "resolved"
                   /\ deleteReq.id \notin Ids(urls')
            [] deleteReq.st = "fail" ->
                   /\ deleteReq'.st = "rejected"
                   /\ urls' = urls
            [] OTHER -> urls' = urls]_vars

C4_Witness ==
    /\ deleteReq.st = "rejected"
    /\ deleteReq.id \in Ids(urls)

\* C5: a clickUpdate {shortUrlId: i, newClickCount: c} sets clicksTotal of
\* the records with id i to c and leaves every other record, the length and
\* the order of the collection as they were.
C5_AbsoluteCount ==
    [][(last'.name = "clickUpdate" /\ "newClickCount" \in DOMAIN last'.data) =>
          /\ Len(urls') = Len(urls)
          /\ \A k \in 1..Len(urls) :
                IF urls[k].id = last'.data.shortUrlId
                THEN /\ urls'[k].id = urls[k].id
                     /\ urls'[k].clicksTotal = last'.data.newClickCount
                ELSE urls'[k] = urls[k]]_vars

C5_Witness ==
    /\ rel = "updated"
    /\ Len(urls) = 2
    /\ urls[1].id # urls[2].id
    /\ \E k \in 1..2 :
          /\ urls[k].id = last.data.shortUrlId
          /\ urls[k].clicksTotal = last.data.newClickCount

\* C6: no pushed clickUpdate lowers the click counter of a record.
C6_CounterNeverDecreases ==
    [][last'.name = "clickUpdate" =>
          /\ Len(urls') = Len(urls)
          /\ \A k \in 1..Len(urls) :
                urls'[k].clicksTotal >= urls[k].clicksTotal]_vars


\* C7: the manager never has more than one transport that is connecting or
\* connected.
C7_SingleTransport == Cardinality(Live) <= 1

\* a step in which io() creates a transport
Created ==
    \E s \in Slots : sockets[s] \in {"none", "closed"} /\ sockets'[s] = "connecting"

\* C8: once maxReconnectAttempts attempts are used no reconnect timer is
\* started, and the terminal event is emitted at most once until connect()
\* is called or a transport connects.
C8_TerminalOnce ==
    [][/\ (reconnectAttempts >= maxReconnectAttempts => timers' <= timers)
       /\ maxReachedEmits' <= 1]_vars

\* C9: from a local disconnect() until the next connect() call no transport
\* is created, and the disconnect() itself starts no reconnect timer.
C9_NoConnectAfterDisconnect ==
    [][/\ (localDisc' => ~Created)
       /\ ((~localDisc /\ localDisc') => timers' = timers)]_vars

\* C10: a disconnect() call leaves this.socket null, isConnected false, the
\* listener registry empty and reconnectAttempts 0.
C10_DisconnectResets ==
    [][(~localDisc /\ localDisc') =>
          /\ socket' = 0
          /\ isConnected' = FALSE
          /\ listeners' = {}
          /\ reconnectAttempts' = 0]_vars

\* C11: when the transport this.socket refers to gets connected while a
\* session exists, a joinRoom message for the room of the session's user has
\* been sent over it by the end of that step.
C11_JoinOnConnect ==
    [][\A s \in Slots :
          (/\ sockets[s] # "connected"
           /\ sockets'[s] = "connected"
           /\ s = socket'
           /\ token' # "null"
           /\ user' # 0) => user' \in joinSent'[s]]_vars

\* C12: every transport that is connecting or connected was created with the
\* token the AuthManager holds now.
C12_CurrentToken == \A s \in Live : handshake[s] = token

\* C13: durable storage holds both auth_token and auth_user or neither.
C13_BothKeysOrNeither ==
    (storage.auth_token = "null") <=> (storage.auth_user = 0)

\* C14: when isAuthenticated() is evaluated on a session whose token carries
\* an expiry that is reached, the session is destroyed by that step: token
\* and user null, the flag false in the state and in what the listeners were
\* told, the storage keys removed.
C14_ExpiryDestroysSession ==
    [][(/\ authChecked = "none"
        /\ authChecked' # "none"
        /\ isAuthenticated
        /\ token # "null"
        /\ Decode(token).ok
        /\ Decode(token).exp * 1000 <= now)
          => /\ token' = "null"
             /\ user' = 0
             /\ ~isAuthenticated'
             /\ ~seen'.isAuthenticated
             /\ storage' = NoStorage]_vars

\* C15: isAuthenticated() returns false when the token is missing, cannot be
\* decoded, or has exp * 1000 <= now (equality included), whatever the flag.
C15_ExpiredIsUnauthenticated ==
    (/\ authChecked # "none"
     /\ \/ token = "null"
        \/ ~Decode(token).ok
        \/ Decode(token).exp * 1000 <= now)
        => authChecked = "false"

C15_Witness ==
    /\ authChecked = "false"
    /\ isAuthenticated
    /\ token # "null"
    /\ Decode(token).ok
    /\ Decode(token).exp * 1000 = now

\* C20: the step that handles a failed getMe() of refreshUser() clears the
\* session in memory and in storage, hands the unauthenticated state to the
\* listeners, and ends the call rejected.
C20_RefreshFailureLogsOut ==
    [][(refreshReq.st = "fail" /\ refreshReq'.st # "fail")
          => /\ token' = "null"
             /\ user' = 0
             /\ ~isAuthenticated'
             /\ storage' = NoStorage
             /\ seen' = AuthState("null", 0, FALSE, FALSE)
             /\ refreshReq'.st = "rejected"]_vars

C20_Witness ==
    /\ refreshReq.st = "rejected"
    /\ loginReq.st = "resolved"
    /\ token = "null"
    /\ ~seen.isAuthenticated
    /\ storage = NoStorage

\* C16: once a fetchUrls() has succeeded, no fetchUrls() is in flight and no
\* pushed event is on its way, the collection holds exactly the ids the
\* backend holds.
C16_ConvergesAfterLoad ==
    (lastResp.done /\ fetchReqs = <<>> /\ chan = <<>>) => Ids(urls) = srvLive

\* C17: as long as no event is handled after it, the collection is the
\* records of the response of the fetchUrls() that completed last, whatever
\* the order in which the calls were issued.
C17_LastResponseWins ==
    lastResp.set =>
        urls = IF lastResp.data.isArray THEN lastResp.data.items ELSE <<>>

C17_Witness ==
    /\ lastResp.set
    /\ lastResp.overtaken
    /\ lastResp.data.isArray
    /\ urls = lastResp.data.items
    /\ Ids(urls) # srvLive

\* C18: the step that handles the gateway's success of createUrl puts the
\* returned record in front of the records the collection held, in their
\* order, and returns it; the step that handles a failure leaves the
\* collection as it is and rethrows.
C18_CreatePrependsOnSuccess ==
    [][createReq' # createReq =>
          CASE createReq.st = "ok" ->
                   /\ urls' = <<createReq.rec>> \o urls
                   /\ createReq' = [st |-> "resolved", rec |-> createReq.rec]
            [] createReq.st = "fail" ->
                   /\ urls' = urls
                   /\ createReq'.st = "rejected"
            [] OTHER -> urls' = urls]_vars

C18_Witness ==
    /\ createReq.st = "resolved"
    /\ last = NoEvent
    /\ Len(urls) >= 2
    /\ urls[1] = createReq.rec
    /\ urls[2].id # createReq.rec.id

\* C19: a gateway operation whose fetch() got a non-2xx response, or no
\* response at all, rejects with an ApiError that carries a message and a
\* numeric status.
C19_NormalizedErrors ==
    (/\ gw.op # "none"
     /\ \/ gw.outcome.kind = "network"
        \/ ~Ok(gw.outcome))
        => /\ gw.result.settled = "rejected"
           /\ gw.result.error.name = "ApiError"
           /\ gw.result.error.message # ""
           /\ "status" \in DOMAIN gw.result.error

\* C21: the unsubscribe function on() returned removes the one registration it
\* was returned for and no other, and an event is dispatched to exactly the
\* callbacks registered for it at that time: the unsubscribed one is no
\* longer invoked, all the others still are.
C21_UnsubscribeRemovesOne ==
    [][/\ (listeners' # listeners /\ listeners' \subseteq listeners) =>
             Cardinality(listeners \ listeners') = 1
       /\ dispatched' # dispatched =>
             \A h \in Callbacks :
                h \in dispatched'.handlers <=>
                   <<dispatched'.event, h>> \in listeners]_vars

\* an event was dispatched to h1 and h2, h1 was unsubscribed from it, and the
\* next dispatch of the event reached h2 alone, h1 staying registered for
\* another event
C21_Witness ==
    /\ dispatched.prevEvent = "clickUpdate"
    /\ dispatched.prevHandlers = {"h1", "h2"}
    /\ dispatched.event = "clickUpdate"
    /\ dispatched.handlers = {"h2"}
    /\ <<"connection", "h1">> \in listeners

\* C22: a message goes out over a transport only in a step that starts with
\* this.socket referring to that transport and the transport connected:
\* what sendEvent() is given in any other state is neither sent then nor when
\* the connection is established later.
C22_NothingSentUnlessConnected ==
    [][\A s \in Slots :
          ~(joinSent'[s] \subseteq joinSent[s]) =>
             /\ s = socket
             /\ sockets[s] = "connected"]_vars

\* a session exists, so the joinRoom of its login was given to sendEvent()
\* before any transport was connected; the transport is connected now and
\* nothing has gone out over it
C22_Witness ==
    /\ token # "null"
    /\ user # 0
    /\ SocketConnected
    /\ joinSent[socket] = {}

\* C23: whenever a connected transport loses its connection, other than by a
\* local disconnect(), and fewer than maxReconnectAttempts attempts are
\* used, the manager starts a reconnect timer.
C23_LossSchedulesReconnect ==
    [][\A s \in Slots :
          (/\ sockets[s] = "connected"
           /\ sockets'[s] # "connected"
           /\ ~(socket = s /\ socket' = 0)
           /\ reconnectAttempts < maxReconnectAttempts)
             => timers' = timers + 1]_vars

\* C24: the timer of the k-th reconnect attempt since the last 'connect'
\* event is started with the k-th of the delays 1000, 2000, 4000, 8000,
\* 16000 ms.
C24_BackoffDelays ==
    reconnectAttempts > 0 =>
        lastDelay = <<1000, 2000, 4000, 8000, 16000>>[reconnectAttempts]

\* the fifth attempt was scheduled
C24_Witness == reconnectAttempts = 5 /\ lastDelay = 16000

\* C25: a step that writes the outcome of a check to customCodeStatus writes
\* the outcome of a check of the value the input holds.
C25_SupersededResultDropped == applied.done => applied.code = customCode

\* C26: every rendered record is in exactly one of getActiveUrls() and
\* getExpiredUrls(), in the expired one exactly when it has an expiration
\* date that is not after the rendering time, and the partition of UrlList
\* puts it on the same side.
C26_OnePartition ==
    LET In(u, s) == \E k \in 1..Len(s) : s[k] = u
    IN  \A i \in 1..Len(view.urls) :
           LET u == view.urls[i]
           IN  /\ In(u, view.active) # In(u, view.expired)
               /\ In(u, view.expired) <=>
                     (u.expirationDate # 0 /\ u.expirationDate <= view.now)
               /\ In(u, view.listExpired) <=> In(u, view.expired)
               /\ In(u, view.listActive) <=> In(u, view.active)

\* C27: the collection never holds two records with the same id.
C27_UniqueIds == \A i \in RecordIds : Count(urls, i) <= 1

\* C28: an event of a transport this.socket does not refer to leaves the
\* connected flag as it is.
C28_ReplacedTransportIgnored ==
    [][\A s \in Slots :
          (/\ s # socket
           /\ socket' = socket
           /\ sockets'[s] # sockets[s]) => isConnected' = isConnected]_vars

\* C29: a create request that carries a custom code is submitted only when
\* the availability check completed last was a check of that code and
\* answered that it is available.
C29_SubmitOnlyCheckedCode ==
    (submitted.done /\ submitted.custom) =>
        /\ submitted.check.done
        /\ submitted.check.code = submitted.code
        /\ submitted.check.available

\* C30: reconnectAttempts stays within 0..maxReconnectAttempts and is 0 after
\* every step in which a transport gets connected.
C30_AttemptsBounded ==
    [][/\ reconnectAttempts' \in 0..maxReconnectAttempts
       /\ (\E s \in Slots : sockets[s] # "connected" /\ sockets'[s] = "connected")
             => reconnectAttempts' = 0]_vars

\* attempts were counted, one of their timers is still pending, and a
\* 'connect' event has set the counter back
C30_Witness ==
    /\ timers > 0
    /\ isConnected
    /\ reconnectAttempts = 0

====
